---- MODULE Spec2Model ----
(***************************************************************************)
(* A model of server.py: a single-threaded HTTP/1.0 file server.           *)
(*                                                                         *)
(* Byte strings and text strings are sequences of one-character strings,   *)
(* so that split, strip, lstrip, startswith, decimal conversion and the    *)
(* serialisation of a response are computed character by character.        *)
(***************************************************************************)
EXTENDS Integers, Sequences, FiniteSets, TLC

(***************************************************************************)
(* String literals of the source.                                          *)
(***************************************************************************)

\* WEBROOT = 'webroot'
WEBROOT ==
    <<"w", "e", "b", "r", "o", "o", "t">>

\* DEFAULT_URL = "index.html"
DEFAULT_URL ==
    <<"i", "n", "d", "e", "x", ".", "h", "t", "m", "l">>

\* 'secret.txt'
s_secret_txt ==
    <<"s", "e", "c", "r", "e", "t", ".", "t", "x", "t">>

\* 'html1.page'
s_html1_page ==
    <<"h", "t", "m", "l", "1", ".", "p", "a", "g", "e">>

\* 'html2.page'
s_html2_page ==
    <<"h", "t", "m", "l", "2", ".", "p", "a", "g", "e">>

\* 'error500.page'
s_error500_page ==
    <<"e", "r", "r", "o", "r", "5", "0", "0", ".", "p", "a", "g", "e">>

\* 'GET'
s_GET ==
    <<"G", "E", "T">>

\* 'HTTP/'
s_HTTP_slash ==
    <<"H", "T", "T", "P", "/">>

\* '1.0'
s_1_0 ==
    <<"1", ".", "0">>

\* 'Internal Server Error'
s_Internal_Server_Error ==
    <<"I", "n", "t", "e", "r", "n", "a", "l", " ", "S", "e", "r", "v", "e", "r", " ", "E", "r", "r", "o", "r">>

\* 'Found'
s_Found ==
    <<"F", "o", "u", "n", "d">>

\* 'Forbidden'
s_Forbidden ==
    <<"F", "o", "r", "b", "i", "d", "d", "e", "n">>

\* 'Not Found'
s_Not_Found ==
    <<"N", "o", "t", " ", "F", "o", "u", "n", "d">>

\* 'OK'
s_OK ==
    <<"O", "K">>

\* 'Connection'
s_Connection ==
    <<"C", "o", "n", "n", "e", "c", "t", "i", "o", "n">>

\* 'close'
s_close ==
    <<"c", "l", "o", "s", "e">>

\* 'Location'
s_Location ==
    <<"L", "o", "c", "a", "t", "i", "o", "n">>

\* 'Content-Length'
s_Content_Length ==
    <<"C", "o", "n", "t", "e", "n", "t", "-", "L", "e", "n", "g", "t", "h">>

\* 'Content-Type'
s_Content_Type ==
    <<"C", "o", "n", "t", "e", "n", "t", "-", "T", "y", "p", "e">>

\* 'application/octet-stream'
s_octet_stream ==
    <<"a", "p", "p", "l", "i", "c", "a", "t", "i", "o", "n", "/", "o", "c", "t", "e", "t", "-", "s", "t", "r", "e", "a", "m">>

\* 'text/html'
s_text_html ==
    <<"t", "e", "x", "t", "/", "h", "t", "m", "l">>

\* 'text/plain'
s_text_plain ==
    <<"t", "e", "x", "t", "/", "p", "l", "a", "i", "n">>

\* '.html'
s_dot_html ==
    <<".", "h", "t", "m", "l">>

\* '.txt'
s_dot_txt ==
    <<".", "t", "x", "t">>

CRLF == <<"\r", "\n">>

\* The byte 0xFF, which is no valid UTF-8, and U+FFFD, the replacement character
\* that decoding puts in its place.
BYTE_FF == "xFF"
U_FFFD == "uFFFD"

\* The characters str.strip() removes.
Whitespace == {" ", "\t", "\n", "\r", "\f"}

None == <<"None">>

(***************************************************************************)
(* The string operations of Python the program uses.                       *)
(***************************************************************************)
SetMin(S) == CHOOSE x \in S : \A y \in S : x <= y
SetMax(S) == CHOOSE x \in S : \A y \in S : x >= y

\* bytes.decode('utf-8', errors='replace')
decode(b) == [i \in DOMAIN b |-> IF b[i] = BYTE_FF THEN U_FFFD ELSE b[i]]

RECURSIVE encode(_)
\* str.encode('utf-8')
encode(s) ==
    IF s = <<>> THEN <<>>
    ELSE (IF Head(s) = U_FFFD THEN <<"xEF", "xBF", "xBD">> ELSE <<Head(s)>>)
         \o encode(Tail(s))

RECURSIVE split_crlf(_)
\* str.split('\r\n')
split_crlf(s) ==
    LET hits == {i \in 1..(Len(s) - 1) : s[i] = "\r" /\ s[i + 1] = "\n"}
    IN  IF hits = {} THEN <<s>>
        ELSE LET i == SetMin(hits)
             IN  <<SubSeq(s, 1, i - 1)>> \o split_crlf(SubSeq(s, i + 2, Len(s)))

RECURSIVE split(_, _)
\* str.split(sep) for a one-character separator: every occurrence splits, and
\* empty strings are kept
split(s, sep) ==
    LET hits == {i \in DOMAIN s : s[i] = sep}
    IN  IF hits = {} THEN <<s>>
        ELSE LET i == SetMin(hits)
             IN  <<SubSeq(s, 1, i - 1)>> \o split(SubSeq(s, i + 1, Len(s)), sep)

\* str.strip()
strip(s) ==
    LET keep == {i \in DOMAIN s : s[i] \notin Whitespace}
    IN  IF keep = {} THEN <<>> ELSE SubSeq(s, SetMin(keep), SetMax(keep))

\* str.lstrip(ch)
lstrip(s, ch) ==
    LET keep == {i \in DOMAIN s : s[i] # ch}
    IN  IF keep = {} THEN <<>> ELSE SubSeq(s, SetMin(keep), Len(s))

\* str.startswith(prefix)
startswith(s, prefix) ==
    /\ Len(s) >= Len(prefix)
    /\ SubSeq(s, 1, Len(prefix)) = prefix

Digits == <<"0", "1", "2", "3", "4", "5", "6", "7", "8", "9">>

RECURSIVE str(_)
\* str(n) for a natural number: its decimal digits
str(n) ==
    IF n < 10 THEN <<Digits[n + 1]>>
    ELSE str(n \div 10) \o <<Digits[(n % 10) + 1]>>

\* os.path.join(a, b) for a relative b
path_join(a, b) == a \o <<"/">> \o b

\* The extension mimetypes.guess_type looks up: from the last dot of the last
\* path component, a leading dot of the component not counting.
splitext(p) ==
    LET slashes == {i \in DOMAIN p : p[i] = "/"}
        start   == IF slashes = {} THEN 1 ELSE SetMax(slashes) + 1
        dots    == {i \in (start + 1)..Len(p) : p[i] = "."}
    IN  IF dots = {} THEN <<>> ELSE SubSeq(p, SetMax(dots), Len(p))

\* mimetypes.guess_type(filename)[0], on the extensions the model serves
guess_type(filename) ==
    LET ext == splitext(filename)
    IN  IF ext = s_dot_html THEN s_text_html
        ELSE IF ext = s_dot_txt THEN s_text_plain
        ELSE None

(***************************************************************************)
(* get_content_type, build_response, validate_http_request                 *)
(***************************************************************************)
get_content_type(filename) ==
    LET ctype == IF guess_type(filename) # None THEN guess_type(filename)
                 ELSE s_octet_stream
    IN  ctype

\* Whether a header mapping (a sequence of <<name, value>>, in insertion order)
\* has the key
HasHeader(headers, hname) == \E i \in DOMAIN headers : headers[i][1] = hname

RECURSIVE headers_join(_)
\* "".join([f"{hname}: {hvalue}\r\n" for hname, hvalue in headers.items()])
headers_join(headers) ==
    IF headers = <<>> THEN <<>>
    ELSE Head(headers)[1] \o <<":", " ">> \o Head(headers)[2] \o CRLF
         \o headers_join(Tail(headers))

\* build_response without the blank line that ends the head
build_response_no_blank_line(http_version, status_code, reason_phrase, headers, body) ==
    LET response_line == s_HTTP_slash \o http_version \o <<" ">> \o str(status_code)
                         \o <<" ">> \o reason_phrase \o CRLF
        hs == IF ~HasHeader(headers, s_Connection)
              THEN Append(headers, <<s_Connection, s_close>>)
              ELSE headers
        headers_str == headers_join(hs)
    IN  encode(response_line \o headers_str) \o body

\* build_response with the default Connection header put before the caller's
build_response_connection_first(http_version, status_code, reason_phrase, headers, body) ==
    LET response_line == s_HTTP_slash \o http_version \o <<" ">> \o str(status_code)
                         \o <<" ">> \o reason_phrase \o CRLF
        hs == IF ~HasHeader(headers, s_Connection)
              THEN << <<s_Connection, s_close>> >> \o headers
              ELSE headers
        headers_str == headers_join(hs)
    IN  encode(response_line \o headers_str \o CRLF) \o body

build_response(http_version, status_code, reason_phrase, headers, body) ==
    LET response_line == s_HTTP_slash \o http_version \o <<" ">> \o str(status_code)
                         \o <<" ">> \o reason_phrase \o CRLF
        hs == IF ~HasHeader(headers, s_Connection)
              THEN Append(headers, <<s_Connection, s_close>>)
              ELSE headers
        headers_str == headers_join(hs)
    IN  encode(response_line \o headers_str \o CRLF) \o body

\* The headers argument of a call: not given (the default None), or the
\* mapping the caller passed.
NoMapping == [given |-> FALSE, items |-> <<>>]
Mapping(items) == [given |-> TRUE, items |-> items]

\* No call of build_response on its own is followed.
NoArgs == [http_version |-> <<>>, status |-> <<0, <<>> >>, headers |-> NoMapping,
           body |-> <<>>]

\* Lines 51-54: the caller's header mapping as the call leaves it.  A caller
\* that passed none has no mapping the call could touch; the mapping a caller
\* passed is the object line 54 assigns into.
build_response_headers(headers) ==
    IF ~headers.given THEN headers
    ELSE IF ~HasHeader(headers.items, s_Connection)
    THEN Mapping(Append(headers.items, <<s_Connection, s_close>>))
    ELSE headers

\* validate_http_request without the strip of the first line
validate_http_request_unstripped(request) ==
    LET lines == split_crlf(request)
        first_line == lines[1]
        parts == split(first_line, " ")
    IN  IF Len(lines) < 1 THEN [valid |-> FALSE, path |-> None]
        ELSE IF Len(parts) # 3 THEN [valid |-> FALSE, path |-> None]
        ELSE IF parts[1] # s_GET \/ ~startswith(parts[3], s_HTTP_slash)
             THEN [valid |-> FALSE, path |-> None]
        ELSE [valid |-> TRUE, path |-> parts[2]]

validate_http_request(request) ==
    LET lines == split_crlf(request)
        first_line == strip(lines[1])
        parts == split(first_line, " ")
    IN  IF Len(lines) < 1 THEN [valid |-> FALSE, path |-> None]
        ELSE IF Len(parts) # 3 THEN [valid |-> FALSE, path |-> None]
        ELSE IF parts[1] # s_GET \/ ~startswith(parts[3], s_HTTP_slash)
             THEN [valid |-> FALSE, path |-> None]
        ELSE [valid |-> TRUE, path |-> parts[2]]
(***************************************************************************)
(* The requests a client may send: what recv(1024) returns.                *)
(***************************************************************************)
\* 'GET / HTTP/1.0\r\n\r\n'
Req01 ==
    <<"G", "E", "T", " ", "/", " ", "H", "T", "T", "P", "/", "1", ".", "0", "\r", "\n", "\r", "\n">>

\* 'GET /index.html HTTP/1.0\r\n\r\n'
Req02 ==
    <<"G", "E", "T", " ", "/", "i", "n", "d", "e", "x", ".", "h", "t", "m", "l", " ", "H", "T", "T", "P", "/", "1", ".", "0", "\r", "\n", "\r", "\n">>

\* 'GET /secret.txt HTTP/1.0\r\n\r\n'
Req03 ==
    <<"G", "E", "T", " ", "/", "s", "e", "c", "r", "e", "t", ".", "t", "x", "t", " ", "H", "T", "T", "P", "/", "1", ".", "0", "\r", "\n", "\r", "\n">>

\* 'GET /html1.page HTTP/1.0\r\n\r\n'
Req04 ==
    <<"G", "E", "T", " ", "/", "h", "t", "m", "l", "1", ".", "p", "a", "g", "e", " ", "H", "T", "T", "P", "/", "1", ".", "0", "\r", "\n", "\r", "\n">>

\* 'GET /error500.page HTTP/1.1\r\nHost: a\r\n\r\n'
Req05 ==
    <<"G", "E", "T", " ", "/", "e", "r", "r", "o", "r", "5", "0", "0", ".", "p", "a", "g", "e", " ", "H", "T", "T", "P", "/", "1", ".", "1", "\r", "\n", "H", "o", "s", "t", ":", " ", "a", "\r", "\n", "\r", "\n">>

\* 'GET //secret.txt HTTP/1.0\r\n\r\n'
Req06 ==
    <<"G", "E", "T", " ", "/", "/", "s", "e", "c", "r", "e", "t", ".", "t", "x", "t", " ", "H", "T", "T", "P", "/", "1", ".", "0", "\r", "\n", "\r", "\n">>

\* 'GET  HTTP/1.0\r\n\r\n': an empty path token
Req07 ==
    <<"G", "E", "T", " ", " ", "H", "T", "T", "P", "/", "1", ".", "0", "\r", "\n", "\r", "\n">>

\* 'GET /\xff HTTP/1.0\r\n\r\n': a byte that is no UTF-8
Req08 ==
    <<"G", "E", "T", " ", "/", BYTE_FF, " ", "H", "T", "T", "P", "/", "1", ".", "0", "\r", "\n", "\r", "\n">>

\* 'GET /index.html HTTP/1.0\n\n': bare LF line ends: the first line is the whole request
Req09 ==
    <<"G", "E", "T", " ", "/", "i", "n", "d", "e", "x", ".", "h", "t", "m", "l", " ", "H", "T", "T", "P", "/", "1", ".", "0", "\n", "\n">>

\* ' GET /secret.txt HTTP/1.0\r\n\r\n': a leading space
Req10 ==
    <<" ", "G", "E", "T", " ", "/", "s", "e", "c", "r", "e", "t", ".", "t", "x", "t", " ", "H", "T", "T", "P", "/", "1", ".", "0", "\r", "\n", "\r", "\n">>

\* 'GET /index.html HTTP/1.0 \r\n\r\n': a trailing space
Req11 ==
    <<"G", "E", "T", " ", "/", "i", "n", "d", "e", "x", ".", "h", "t", "m", "l", " ", "H", "T", "T", "P", "/", "1", ".", "0", " ", "\r", "\n", "\r", "\n">>

\* 'POST / HTTP/1.0\r\n\r\n'
Req12 ==
    <<"P", "O", "S", "T", " ", "/", " ", "H", "T", "T", "P", "/", "1", ".", "0", "\r", "\n", "\r", "\n">>

\* 'GET /\r\n\r\n'
Req13 ==
    <<"G", "E", "T", " ", "/", "\r", "\n", "\r", "\n">>

\* 'GET / HTTP/1.0 x\r\n\r\n'
Req14 ==
    <<"G", "E", "T", " ", "/", " ", "H", "T", "T", "P", "/", "1", ".", "0", " ", "x", "\r", "\n", "\r", "\n">>

\* 'GET /  HTTP/1.0\r\n\r\n': two spaces: an empty third token of four
Req15 ==
    <<"G", "E", "T", " ", "/", " ", " ", "H", "T", "T", "P", "/", "1", ".", "0", "\r", "\n", "\r", "\n">>

\* 'GET / HTP/1.0\r\n\r\n'
Req16 ==
    <<"G", "E", "T", " ", "/", " ", "H", "T", "P", "/", "1", ".", "0", "\r", "\n", "\r", "\n">>

\* 'get / HTTP/1.0\r\n\r\n'
Req17 ==
    <<"g", "e", "t", " ", "/", " ", "H", "T", "T", "P", "/", "1", ".", "0", "\r", "\n", "\r", "\n">>

\* '\r\nGET / HTTP/1.0\r\n\r\n': an empty first line
Req18 ==
    <<"\r", "\n", "G", "E", "T", " ", "/", " ", "H", "T", "T", "P", "/", "1", ".", "0", "\r", "\n", "\r", "\n">>

\* 'GET\t/\tHTTP/1.0\r\n\r\n'
Req19 ==
    <<"G", "E", "T", "\t", "/", "\t", "H", "T", "T", "P", "/", "1", ".", "0", "\r", "\n", "\r", "\n">>

\* 'GET ./sub/../secret.txt HTTP/1.0\r\n\r\n': no leading slash, a '.' and a
\* '..' segment
Req20 ==
    <<"G", "E", "T", " ", ".", "/", "s", "u", "b", "/", ".", ".", "/", "s", "e", "c", "r", "e", "t", ".", "t", "x", "t", " ", "H", "T", "T", "P", "/", "1", ".", "0", "\r", "\n", "\r", "\n">>

Requests ==
    {Req01, Req02, Req03, Req04, Req05, Req06, Req07, Req08, Req09, Req10,
     Req11, Req12, Req13, Req14, Req15, Req16, Req17, Req18, Req19, Req20}

\* What the connections after the first are followed with
LaterRequests == {Req02, Req12}

(***************************************************************************)
(* Bounds of the model.                                                    *)
(***************************************************************************)
\* The length of the longest file of the document root.
MaxFileLen == 11

\* The number of connections the model follows main's loop through.
MaxConns == 2

\* The number of times build_response is called with the same arguments.
MaxCalls == 2

(***************************************************************************)
(* Configuration and environment.                                          *)
(***************************************************************************)
SOCKET_TIMEOUT == 5

\* The bytes files are made of: a file holds a prefix of this text.
FileText ==
    <<"h", "e", "l", "l", "o", " ", "w", "o", "r", "l", "d", "\n", "!", "\n">>

FileContents == {SubSeq(FileText, 1, n) : n \in {0, MaxFileLen}}

\* What the filesystem holds at a path: nothing, a directory, or a regular
\* file that the server process may or may not open for reading.
Absent == [kind |-> "absent", readable |-> FALSE, data |-> <<>>]
Directory == [kind |-> "dir", readable |-> FALSE, data |-> <<>>]
FileStates ==
    {Absent, Directory, [kind |-> "file", readable |-> FALSE, data |-> <<>>]}
    \cup {[kind |-> "file", readable |-> TRUE, data |-> d] : d \in FileContents}

\* The paths under the document root whose content varies; every other path
\* (the document root itself among them) is no regular file.
FsPaths ==
    {path_join(WEBROOT, DEFAULT_URL), path_join(WEBROOT, s_secret_txt),
     path_join(WEBROOT, s_error500_page)}

\* The route tables: those of the source, and two more in which the tables
\* overlap.
SourceTables ==
    [forbidden |-> {s_secret_txt},
     redirect  |-> [k \in {s_html1_page} |-> s_html2_page],
     error     |-> {s_error500_page}]

OverlapTables ==
    [forbidden |-> {s_html1_page, DEFAULT_URL},
     redirect  |-> [k \in {s_html1_page, DEFAULT_URL} |->
                      IF k = s_html1_page THEN s_html2_page ELSE s_secret_txt],
     error     |-> {s_html1_page}]

NestedTables ==
    [forbidden |-> {s_secret_txt, DEFAULT_URL, s_error500_page},
     redirect  |-> [k \in {s_secret_txt} |-> s_html2_page],
     error     |-> {s_secret_txt, s_error500_page}]

TableConfigs == {SourceTables, OverlapTables, NestedTables}

VARIABLES
    FORBIDDEN_FILES,         \* the forbidden set
    REDIRECTION_DICTIONARY,  \* the redirect map
    INTERNAL_ERROR_TRIGGER,  \* the error-trigger set
    fs,          \* the filesystem: FsPaths -> FileStates
    pc,          \* where the server process is
    sock,        \* the client socket: "none", "open" or "closed"
    timeout,     \* the client socket's timeout: 0 for None (blocking)
    recvd,       \* how recv ended: "none", "data", "empty", "timeout", "error"
    data,        \* the bytes recv returned
    valid_http,  \* "none", "valid" or "invalid"
    resource,    \* the request path, then the router's normalised resource
    filepath,    \* the router's filepath
    response,    \* the response built for the next send
    site,        \* the source line of the next sendall, 0 when there is none
    escaping,    \* an exception is leaving handle_client
    sends,       \* the sendall calls of this connection, in order
    ops,         \* the operations on the client socket, in order
    reads,       \* the file reads of this connection, in order
    checks,      \* the checks the router evaluated, in order
    accepted,    \* how many connections main has accepted
    unclosed,    \* how many client sockets were still open when main
                 \* accepted the connection after theirs
    args,        \* the arguments build_response is called with on its own
    calls        \* the calls of build_response with args, in order

tables == <<FORBIDDEN_FILES, REDIRECTION_DICTIONARY, INTERNAL_ERROR_TRIGGER>>
conn == <<sock, timeout, recvd, data, valid_http, resource, filepath, response,
          site, escaping, sends, ops, reads, checks>>
loop == <<accepted, unclosed>>
pure == <<args, calls>>
vars == <<tables, fs, pc, conn, loop, pure>>

(***************************************************************************)
(* The filesystem calls.                                                   *)
(***************************************************************************)
\* The directories that are always there: the document root and one
\* directory in it.
s_sub == <<"s", "u", "b">>
FixedDirs == {WEBROOT, path_join(WEBROOT, s_sub)}

\* The place no path component leads to
Nowhere == << <<"?">> >>

RECURSIVE JoinComponents(_)
\* The path of a sequence of components
JoinComponents(cs) ==
    IF cs = <<>> THEN <<>>
    ELSE IF Len(cs) = 1 THEN cs[1]
    ELSE cs[1] \o <<"/">> \o JoinComponents(Tail(cs))

\* What is at the place the components lead to from the working directory
KindAt(cs) ==
    IF cs = <<>> THEN "dir"
    ELSE LET q == JoinComponents(cs)
         IN  IF q \in FixedDirs THEN "dir"
             ELSE IF q \in DOMAIN fs THEN fs[q].kind
             ELSE "absent"

RECURSIVE Walk(_, _)
\* The operating system's walk along a path, component by component, from
\* the place cur: an empty component and '.' stay, '..' goes up, a name goes
\* down, and each step needs the place it leaves to be a directory.
Walk(comps, cur) ==
    IF comps = <<>> THEN cur
    ELSE IF KindAt(cur) # "dir" THEN Nowhere
    ELSE LET c == Head(comps)
         IN  IF c \in {<<>>, <<".">>} THEN Walk(Tail(comps), cur)
             ELSE IF c = <<".", ".">>
             THEN IF cur = <<>> THEN Nowhere
                  ELSE Walk(Tail(comps), SubSeq(cur, 1, Len(cur) - 1))
             ELSE Walk(Tail(comps), Append(cur, c))

\* What the operating system finds at a path
lookup(p) ==
    LET cs == Walk(split(p, "/"), <<>>)
        q == JoinComponents(cs)
    IN  IF q \in DOMAIN fs /\ q \notin FixedDirs THEN fs[q]
        ELSE IF KindAt(cs) = "dir" THEN Directory
        ELSE Absent

\* os.path.exists in the place of os.path.isfile: a directory passes
isfile_exists(p) == lookup(p).kind # "absent"

\* os.path.isfile(filepath)
isfile(p) == lookup(p).kind = "file"

\* Whether open(filepath, 'rb') and read() succeed
CanRead(p) == lookup(p).kind = "file" /\ lookup(p).readable

get_file_data(p) == lookup(p).data

(***************************************************************************)
(* handle_client_request                                                   *)
(***************************************************************************)
\* resolve_resource without the default document for '/'
resolve_resource_no_default(path) == lstrip(path, "/")

\* resolve_resource removing one leading slash only
resolve_resource_one_slash(path) ==
    IF path = <<"/">> THEN DEFAULT_URL
    ELSE IF path # <<>> /\ Head(path) = "/" THEN Tail(path)
    ELSE path

\* Lines 67-70: the resource the tables and the filesystem are asked about
resolve_resource(path) ==
    IF path = <<"/">> THEN DEFAULT_URL ELSE lstrip(path, "/")

InternalServerError == build_response(s_1_0, 500, s_Internal_Server_Error, <<>>, <<>>)

\* FileResponse with a Content-Length one more than the bytes read
FileResponseOffByOne(path, file_data) ==
    LET file_length == Len(file_data) + 1
        content_type == get_content_type(path)
        headers == << <<s_Content_Length, str(file_length)>>,
                      <<s_Content_Type, content_type>> >>
    IN  build_response(s_1_0, 200, s_OK, headers, file_data)

\* Route with a Location that lacks the leading slash
RouteBareLocation(res, path) ==
    IF res \in INTERNAL_ERROR_TRIGGER
    THEN [checks |-> <<"error">>, site |-> 76, response |-> InternalServerError]
    ELSE IF res \in DOMAIN REDIRECTION_DICTIONARY
    THEN LET new_location == REDIRECTION_DICTIONARY[res]
         IN  [checks |-> <<"error", "redirect">>, site |-> 82,
              response |-> build_response(s_1_0, 302, s_Found,
                             << <<s_Location, new_location>> >>, <<>>)]
    ELSE IF res \in FORBIDDEN_FILES
    THEN [checks |-> <<"error", "redirect", "forbidden">>, site |-> 87,
          response |-> build_response(s_1_0, 403, s_Forbidden, <<>>, <<>>)]
    ELSE IF ~isfile(path)
    THEN [checks |-> <<"error", "redirect", "forbidden", "isfile">>, site |-> 92,
          response |-> build_response(s_1_0, 404, s_Not_Found, <<>>, <<>>)]
    ELSE [checks |-> <<"error", "redirect", "forbidden", "isfile">>, site |-> 0,
          response |-> <<>>]

\* Route with the regular-file check made before the forbidden set is asked
RouteMissingFirst(res, path) ==
    IF res \in INTERNAL_ERROR_TRIGGER
    THEN [checks |-> <<"error">>, site |-> 76, response |-> InternalServerError]
    ELSE IF res \in DOMAIN REDIRECTION_DICTIONARY
    THEN LET new_location == REDIRECTION_DICTIONARY[res]
         IN  [checks |-> <<"error", "redirect">>, site |-> 82,
              response |-> build_response(s_1_0, 302, s_Found,
                             << <<s_Location, <<"/">> \o new_location>> >>, <<>>)]
    ELSE IF ~isfile(path)
    THEN [checks |-> <<"error", "redirect", "isfile">>, site |-> 92,
          response |-> build_response(s_1_0, 404, s_Not_Found, <<>>, <<>>)]
    ELSE IF res \in FORBIDDEN_FILES
    THEN [checks |-> <<"error", "redirect", "isfile", "forbidden">>, site |-> 87,
          response |-> build_response(s_1_0, 403, s_Forbidden, <<>>, <<>>)]
    ELSE [checks |-> <<"error", "redirect", "isfile", "forbidden">>, site |-> 0,
          response |-> <<>>]

\* Route with the redirect map consulted before the error-trigger set
RouteRedirectFirst(res, path) ==
    IF res \in DOMAIN REDIRECTION_DICTIONARY
    THEN LET new_location == REDIRECTION_DICTIONARY[res]
         IN  [checks |-> <<"redirect">>, site |-> 82,
              response |-> build_response(s_1_0, 302, s_Found,
                             << <<s_Location, <<"/">> \o new_location>> >>, <<>>)]
    ELSE IF res \in INTERNAL_ERROR_TRIGGER
    THEN [checks |-> <<"redirect", "error">>, site |-> 76,
          response |-> InternalServerError]
    ELSE IF res \in FORBIDDEN_FILES
    THEN [checks |-> <<"redirect", "error", "forbidden">>, site |-> 87,
          response |-> build_response(s_1_0, 403, s_Forbidden, <<>>, <<>>)]
    ELSE IF ~isfile(path)
    THEN [checks |-> <<"redirect", "error", "forbidden", "isfile">>, site |-> 92,
          response |-> build_response(s_1_0, 404, s_Not_Found, <<>>, <<>>)]
    ELSE [checks |-> <<"redirect", "error", "forbidden", "isfile">>, site |-> 0,
          response |-> <<>>]

RECURSIVE normpath_components(_, _)
\* os.path.normpath on the components of a relative path
normpath_components(comps, done) ==
    IF comps = <<>> THEN done
    ELSE LET c == Head(comps)
         IN  IF c \in {<<>>, <<".">>} THEN normpath_components(Tail(comps), done)
             ELSE IF c = <<".", ".">> /\ done # <<>> /\ done[Len(done)] # <<".", ".">>
             THEN normpath_components(Tail(comps), SubSeq(done, 1, Len(done) - 1))
             ELSE normpath_components(Tail(comps), Append(done, c))

\* Route with the tables asked about the normalised form of the resource
RouteNormalised(res, path) ==
    LET key == JoinComponents(normpath_components(split(res, "/"), <<>>))
    IN  IF key \in INTERNAL_ERROR_TRIGGER
        THEN [checks |-> <<"error">>, site |-> 76, response |-> InternalServerError]
        ELSE IF key \in DOMAIN REDIRECTION_DICTIONARY
        THEN LET new_location == REDIRECTION_DICTIONARY[key]
             IN  [checks |-> <<"error", "redirect">>, site |-> 82,
                  response |-> build_response(s_1_0, 302, s_Found,
                                 << <<s_Location, <<"/">> \o new_location>> >>, <<>>)]
        ELSE IF key \in FORBIDDEN_FILES
        THEN [checks |-> <<"error", "redirect", "forbidden">>, site |-> 87,
              response |-> build_response(s_1_0, 403, s_Forbidden, <<>>, <<>>)]
        ELSE IF ~isfile(path)
        THEN [checks |-> <<"error", "redirect", "forbidden", "isfile">>, site |-> 92,
              response |-> build_response(s_1_0, 404, s_Not_Found, <<>>, <<>>)]
        ELSE [checks |-> <<"error", "redirect", "forbidden", "isfile">>, site |-> 0,
              response |-> <<>>]

\* Lines 74-93: the checks in their order; site 0 is the fall through to the
\* try block of line 95.
Route(res, path) ==
    IF res \in INTERNAL_ERROR_TRIGGER
    THEN [checks |-> <<"error">>, site |-> 76, response |-> InternalServerError]
    ELSE IF res \in DOMAIN REDIRECTION_DICTIONARY
    THEN LET new_location == REDIRECTION_DICTIONARY[res]
         IN  [checks |-> <<"error", "redirect">>, site |-> 82,
              response |-> build_response(s_1_0, 302, s_Found,
                             << <<s_Location, <<"/">> \o new_location>> >>, <<>>)]
    ELSE IF res \in FORBIDDEN_FILES
    THEN [checks |-> <<"error", "redirect", "forbidden">>, site |-> 87,
          response |-> build_response(s_1_0, 403, s_Forbidden, <<>>, <<>>)]
    ELSE IF ~isfile(path)
    THEN [checks |-> <<"error", "redirect", "forbidden", "isfile">>, site |-> 92,
          response |-> build_response(s_1_0, 404, s_Not_Found, <<>>, <<>>)]
    ELSE [checks |-> <<"error", "redirect", "forbidden", "isfile">>, site |-> 0,
          response |-> <<>>]

\* Lines 96-103: the 200 response for the bytes read
FileResponse(path, file_data) ==
    LET file_length == Len(file_data)
        content_type == get_content_type(path)
        headers == << <<s_Content_Length, str(file_length)>>,
                      <<s_Content_Type, content_type>> >>
    IN  build_response(s_1_0, 200, s_OK, headers, file_data)

\* Where a failed sendall of the given line is handled: the router's own
\* except clause (line 105) for the send inside its try block, nowhere for the
\* send inside handle_client's except clause, and handle_client's except
\* clause (line 156) for every other.
SendFailureHandler(line) ==
    IF line = 104 THEN "router_except"
    ELSE IF line = 159 THEN "none"
    ELSE "handler_except"

\* What a failed sendall may have delivered: nothing, or a part.
FailedSendLengths(r) == {0, Len(r) \div 2}

(***************************************************************************)
(* The state machine.                                                      *)
(***************************************************************************)
Init ==
    /\ \E t \in TableConfigs :
          /\ FORBIDDEN_FILES = t.forbidden
          /\ REDIRECTION_DICTIONARY = t.redirect
          /\ INTERNAL_ERROR_TRIGGER = t.error
    /\ fs \in [FsPaths -> FileStates]
    /\ pc = "accept"
    /\ sock = "none"
    /\ timeout = 0
    /\ recvd = "none"
    /\ data = <<>>
    /\ valid_http = "none"
    /\ resource = <<>>
    /\ filepath = <<>>
    /\ response = <<>>
    /\ site = 0
    /\ escaping = FALSE
    /\ sends = <<>>
    /\ ops = <<>>
    /\ reads = <<>>
    /\ checks = <<>>
    /\ accepted = 0
    /\ unclosed = 0
    /\ args = NoArgs
    /\ calls = <<>>

\* main's loop dispatching the next connection without waiting for the
\* handler of the last to finish
AcceptWithoutWaiting ==
    /\ pc \in {"accept", "finally"}
    /\ accepted < MaxConns
    /\ accepted' = accepted + 1
    /\ unclosed' = unclosed + (IF sock = "open" THEN 1 ELSE 0)
    /\ pc' = "settimeout"
    /\ sock' = "open"
    /\ timeout' = 0
    /\ recvd' = "none"
    /\ data' = <<>>
    /\ valid_http' = "none"
    /\ resource' = <<>>
    /\ filepath' = <<>>
    /\ response' = <<>>
    /\ site' = 0
    /\ escaping' = FALSE
    /\ sends' = <<>>
    /\ ops' = <<>>
    /\ reads' = <<>>
    /\ checks' = <<>>
    /\ UNCHANGED <<tables, fs, pure>>

\* main, lines 175-177: accept a connection and call handle_client
Accept ==
    /\ pc = "accept"
    /\ accepted < MaxConns
    /\ accepted' = accepted + 1
    /\ unclosed' = unclosed + (IF sock = "open" THEN 1 ELSE 0)
    /\ pc' = "settimeout"
    /\ sock' = "open"
    /\ timeout' = 0
    /\ recvd' = "none"
    /\ data' = <<>>
    /\ valid_http' = "none"
    /\ resource' = <<>>
    /\ filepath' = <<>>
    /\ response' = <<>>
    /\ site' = 0
    /\ escaping' = FALSE
    /\ sends' = <<>>
    /\ ops' = <<>>
    /\ reads' = <<>>
    /\ checks' = <<>>
    /\ UNCHANGED <<tables, fs, pure>>

\* Line 141
SetTimeout ==
    /\ pc = "settimeout"
    /\ timeout' = SOCKET_TIMEOUT
    /\ ops' = Append(ops, "settimeout")
    /\ pc' = "recv"
    /\ UNCHANGED <<tables, loop, pure, fs, sock, recvd, data, valid_http, resource, filepath,
                   response, site, escaping, sends, reads, checks>>

\* Line 142: recv returns bytes, returns none (the peer closed), times out
\* (only a socket with a timeout does), or fails.  The first connection may
\* bring any of Requests, the connections after it one of LaterRequests.
Recv ==
    /\ pc = "recv"
    /\ ops' = Append(ops, "recv")
    /\ \/ \E d \in (IF accepted = 1 THEN Requests ELSE LaterRequests) :
             /\ data' = d
             /\ recvd' = "data"
             /\ pc' = "validate"
       \/ /\ data' = <<>>
          /\ recvd' = "empty"
          /\ pc' = "close_empty"
       \/ /\ timeout # 0
          /\ recvd' = "timeout"
          /\ pc' = "except"
          /\ UNCHANGED data
       \/ /\ recvd' = "error"
          /\ pc' = "except"
          /\ UNCHANGED data
    /\ UNCHANGED <<tables, loop, pure, fs, sock, timeout, valid_http, resource, filepath,
                   response, site, escaping, sends, reads, checks>>

\* CloseEmpty without the return of line 145
CloseEmptyNoReturn ==
    /\ pc = "close_empty"
    /\ sock' = "closed"
    /\ ops' = Append(ops, "close")
    /\ pc' = "validate"
    /\ UNCHANGED <<tables, loop, pure, fs, timeout, recvd, data, valid_http, resource,
                   filepath, response, site, escaping, sends, reads, checks>>

\* Lines 143-145: nothing received
CloseEmpty ==
    /\ pc = "close_empty"
    /\ sock' = "closed"
    /\ ops' = Append(ops, "close")
    /\ pc' = "finally"
    /\ UNCHANGED <<tables, loop, pure, fs, timeout, recvd, data, valid_http, resource,
                   filepath, response, site, escaping, sends, reads, checks>>

\* Lines 147-154: decode, validate, and either call the router or build the
\* 500 response of an invalid request
Validate ==
    /\ pc = "validate"
    /\ LET request_str == decode(data)
           v == validate_http_request(request_str)
       IN  IF v.valid
           THEN /\ valid_http' = "valid"
                /\ resource' = v.path
                /\ pc' = "router"
                /\ UNCHANGED <<response, site>>
           ELSE /\ valid_http' = "invalid"
                /\ response' = InternalServerError
                /\ site' = 155
                /\ pc' = "send"
                /\ UNCHANGED resource
    /\ UNCHANGED <<tables, loop, pure, fs, sock, timeout, recvd, data, filepath, escaping,
                   sends, ops, reads, checks>>

\* Lines 67-93: normalise the resource and evaluate the checks
HandleClientRequest ==
    /\ pc = "router"
    /\ LET res == resolve_resource(resource)
           path == path_join(WEBROOT, res)
           r == Route(res, path)
       IN  /\ resource' = res
           /\ filepath' = path
           /\ checks' = r.checks
           /\ IF r.site = 0
              THEN /\ pc' = "read"
                   /\ UNCHANGED <<response, site>>
              ELSE /\ pc' = "send"
                   /\ response' = r.response
                   /\ site' = r.site
    /\ UNCHANGED <<tables, loop, pure, fs, sock, timeout, recvd, data, valid_http, escaping,
                   sends, ops, reads>>

\* ReadFile answering a failed read as a missing file
ReadFileFailureAsMissing ==
    /\ pc = "read"
    /\ IF CanRead(filepath)
       THEN /\ response' = FileResponse(filepath, get_file_data(filepath))
            /\ site' = 104
            /\ reads' = Append(reads, [ok |-> TRUE, data |-> get_file_data(filepath),
                                       found |-> lookup(filepath).kind])
       ELSE /\ response' = build_response(s_1_0, 404, s_Not_Found, <<>>, <<>>)
            /\ site' = 92
            /\ reads' = Append(reads, [ok |-> FALSE, data |-> <<>>,
                                       found |-> lookup(filepath).kind])
    /\ pc' = "send"
    /\ UNCHANGED <<tables, loop, pure, fs, sock, timeout, recvd, data, valid_http, resource,
                   filepath, escaping, sends, ops, checks>>

\* Lines 95-103 and, when the read fails, 105-106.  A read records what
\* open() found at the path.
ReadFile ==
    /\ pc = "read"
    /\ IF CanRead(filepath)
       THEN /\ response' = FileResponse(filepath, get_file_data(filepath))
            /\ site' = 104
            /\ reads' = Append(reads, [ok |-> TRUE, data |-> get_file_data(filepath),
                                       found |-> lookup(filepath).kind])
       ELSE /\ response' = InternalServerError
            /\ site' = 107
            /\ reads' = Append(reads, [ok |-> FALSE, data |-> <<>>,
                                       found |-> lookup(filepath).kind])
    /\ pc' = "send"
    /\ UNCHANGED <<tables, loop, pure, fs, sock, timeout, recvd, data, valid_http, resource,
                   filepath, escaping, sends, ops, checks>>

\* client_socket.sendall(response) at line `site`: all bytes are delivered, or
\* the call raises after delivering only some of them.
Send ==
    /\ pc = "send"
    /\ ops' = Append(ops, "send")
    /\ \/ /\ sends' = Append(sends, [site |-> site, response |-> response,
                                     ok |-> TRUE, delivered |-> response])
          /\ pc' = "finally"
          /\ UNCHANGED <<response, site, escaping>>
       \/ \E n \in FailedSendLengths(response) :
             /\ sends' = Append(sends, [site |-> site, response |-> response,
                                        ok |-> FALSE,
                                        delivered |-> SubSeq(response, 1, n)])
             /\ LET h == SendFailureHandler(site)
                IN  IF h = "router_except"
                    THEN /\ response' = InternalServerError
                         /\ site' = 107
                         /\ pc' = "send"
                         /\ UNCHANGED escaping
                    ELSE IF h = "handler_except"
                    THEN /\ pc' = "except"
                         /\ UNCHANGED <<response, site, escaping>>
                    ELSE /\ pc' = "finally"
                         /\ escaping' = TRUE
                         /\ UNCHANGED <<response, site>>
    /\ UNCHANGED <<tables, loop, pure, fs, sock, timeout, recvd, data, valid_http, resource,
                   filepath, reads, checks>>

\* An except clause that swallows the exception and sends nothing
ExceptSilent ==
    /\ pc = "except"
    /\ pc' = "finally"
    /\ UNCHANGED <<tables, loop, pure, fs, sock, timeout, recvd, data, valid_http, resource,
                   filepath, response, site, escaping, sends, ops, reads, checks>>

\* Lines 156-158: handle_client's except clause builds the 500 response
Except ==
    /\ pc = "except"
    /\ response' = InternalServerError
    /\ site' = 159
    /\ pc' = "send"
    /\ UNCHANGED <<tables, loop, pure, fs, sock, timeout, recvd, data, valid_http, resource,
                   filepath, escaping, sends, ops, reads, checks>>

\* A close after the try statement instead of in a finally clause: an
\* exception that leaves the except clause skips it
FinallyAsPlainClose ==
    /\ pc = "finally"
    /\ sock' = IF escaping THEN sock ELSE "closed"
    /\ ops' = IF escaping THEN ops ELSE Append(ops, "close")
    /\ pc' = IF escaping THEN "crashed" ELSE "accept"
    /\ UNCHANGED <<tables, loop, pure, fs, timeout, recvd, data, valid_http, resource,
                   filepath, response, site, escaping, sends, reads, checks>>

\* Lines 160-162: the finally clause closes the socket; then handle_client
\* returns to main's loop, or the exception leaves it and, main catching
\* nothing, ends the process.
Finally ==
    /\ pc = "finally"
    /\ sock' = "closed"
    /\ ops' = Append(ops, "close")
    /\ pc' = IF escaping THEN "crashed" ELSE "accept"
    /\ UNCHANGED <<tables, loop, pure, fs, timeout, recvd, data, valid_http, resource,
                   filepath, response, site, escaping, sends, reads, checks>>

\* Another process changes what is at a path of the document root.
FsChange ==
    /\ \E p \in FsPaths, s \in FileStates :
          /\ s # fs[p]
          /\ fs' = [fs EXCEPT ![p] = s]
    /\ UNCHANGED <<tables, pc, conn, loop, pure>>

Next ==
    \/ Accept
    \/ SetTimeout
    \/ Recv
    \/ CloseEmpty
    \/ Validate
    \/ HandleClientRequest
    \/ ReadFile
    \/ Send
    \/ Except
    \/ Finally
    \/ FsChange

Spec == Init /\ [][Next]_vars

(***************************************************************************)
(* build_response on its own: the arguments are drawn from the sets below  *)
(* and the function is called with them, and called again with the same    *)
(* arguments (the same mapping object, as the call before left it).        *)
(***************************************************************************)
s_1_1 == <<"1", ".", "1">>
s_keep_alive == <<"k", "e", "e", "p", "-", "a", "l", "i", "v", "e">>
s_connection == <<"c", "o", "n", "n", "e", "c", "t", "i", "o", "n">>

\* The header mappings a caller passes: none, an empty one, and mappings with
\* and without a Connection key, in insertion order.
HeaderMappings ==
    {NoMapping} \cup {Mapping(items) : items \in {
     <<>>,
     << <<s_Location, <<"/", "x">>>> >>,
     << <<s_Content_Length, <<"5">> >>, <<s_Content_Type, s_text_html>> >>,
     << <<s_Content_Type, s_text_plain>>, <<s_Content_Length, <<"0">> >> >>,
     << <<s_Connection, s_keep_alive>> >>,
     << <<s_Connection, s_close>>, <<s_Content_Type, s_text_html>> >>,
     << <<s_Content_Type, s_text_html>>, <<s_Connection, s_keep_alive>>,
        <<s_Location, <<"/">> >> >>,
     << <<s_connection, s_keep_alive>> >>}}

BuildResponseArgs ==
    [http_version : {s_1_0, s_1_1},
     status : {<<200, s_OK>>, <<404, s_Not_Found>>, <<7, <<>> >>},
     headers : HeaderMappings,
     body : {<<>>, <<"h", "i", "\r", "\n", "\r", "\n", "!">>, <<BYTE_FF>>}]

InitPure ==
    /\ FORBIDDEN_FILES = SourceTables.forbidden
    /\ REDIRECTION_DICTIONARY = SourceTables.redirect
    /\ INTERNAL_ERROR_TRIGGER = SourceTables.error
    /\ fs = [p \in FsPaths |-> Absent]
    /\ pc = "accept"
    /\ sock = "none"
    /\ timeout = 0
    /\ recvd = "none"
    /\ data = <<>>
    /\ valid_http = "none"
    /\ resource = <<>>
    /\ filepath = <<>>
    /\ response = <<>>
    /\ site = 0
    /\ escaping = FALSE
    /\ sends = <<>>
    /\ ops = <<>>
    /\ reads = <<>>
    /\ checks = <<>>
    /\ accepted = 0
    /\ unclosed = 0
    /\ args \in BuildResponseArgs
    /\ calls = <<>>

\* One call of build_response: what it was given as headers, what it
\* returned, and the caller's mapping after it.
BuildResponseCall ==
    /\ args # NoArgs
    /\ Len(calls) < MaxCalls
    /\ LET headers == IF calls = <<>> THEN args.headers
                      ELSE calls[Len(calls)].headers_after
       IN  calls' = Append(calls,
                      [headers |-> headers,
                       returned |-> build_response(args.http_version, args.status[1],
                                      args.status[2],
                                      headers.items,
                                      args.body),
                       headers_after |-> build_response_headers(headers)])
    /\ UNCHANGED <<tables, fs, pc, conn, loop, args>>

NextPure == BuildResponseCall

SpecPure == InitPure /\ [][NextPure]_vars

(***************************************************************************)
(* What the properties below speak of.                                     *)
(***************************************************************************)
\* 'HTTP/1.0 500 Internal Server Error\r\nConnection: close\r\n\r\n'
Wire500 ==
    <<"H", "T", "T", "P", "/", "1", ".", "0", " ", "5", "0", "0", " ", "I", "n", "t", "e", "r", "n", "a", "l", " ", "S", "e", "r", "v", "e", "r", " ", "E", "r", "r", "o", "r", "\r", "\n", "C", "o", "n", "n", "e", "c", "t", "i", "o", "n", ":", " ", "c", "l", "o", "s", "e", "\r", "\n", "\r", "\n">>

\* 'HTTP/1.0 403 Forbidden\r\nConnection: close\r\n\r\n'
Wire403 ==
    <<"H", "T", "T", "P", "/", "1", ".", "0", " ", "4", "0", "3", " ", "F", "o", "r", "b", "i", "d", "d", "e", "n", "\r", "\n", "C", "o", "n", "n", "e", "c", "t", "i", "o", "n", ":", " ", "c", "l", "o", "s", "e", "\r", "\n", "\r", "\n">>

\* 'HTTP/1.0 302 Found\r\nLocation: /'
Wire302Head ==
    <<"H", "T", "T", "P", "/", "1", ".", "0", " ", "3", "0", "2", " ", "F", "o", "u", "n", "d", "\r", "\n", "L", "o", "c", "a", "t", "i", "o", "n", ":", " ", "/">>

\* '\r\nConnection: close\r\n\r\n'
Wire302Tail ==
    <<"\r", "\n", "C", "o", "n", "n", "e", "c", "t", "i", "o", "n", ":", " ", "c", "l", "o", "s", "e", "\r", "\n", "\r", "\n">>

\* 'HTTP/1.0 200 OK'
StatusLine200 ==
    <<"H", "T", "T", "P", "/", "1", ".", "0", " ", "2", "0", "0", " ", "O", "K">>

RECURSIVE Delivered(_)
\* The bytes a sequence of sendall calls delivered
Delivered(ss) == IF ss = <<>> THEN <<>> ELSE Head(ss).delivered \o Delivered(Tail(ss))

\* The bytes the client of the current connection has been sent
Wire == Delivered(sends)

\* The router has been called and has evaluated its checks
Routed == checks # <<>>

\* The line and the response of the connection's first sendall, made or about
\* to be made
FirstSite == IF sends # <<>> THEN sends[1].site ELSE site
FirstResponse == IF sends # <<>> THEN sends[1].response ELSE response

\* handle_client has been left
Finished == pc \in {"accept", "crashed"} /\ sock # "none"

InNoTable(res) ==
    /\ res \notin INTERNAL_ERROR_TRIGGER
    /\ res \notin DOMAIN REDIRECTION_DICTIONARY
    /\ res \notin FORBIDDEN_FILES

(***************************************************************************)
(* C1: the router evaluates error-trigger, redirect, forbidden, missing    *)
(* file, success in this order and the first check that matches decides:   *)
(* a resource of the error-trigger set gets the 500 response with an empty *)
(* body whatever the other tables and the filesystem hold, and a response  *)
(* decided by a table is decided without the filesystem being asked or a   *)
(* file being read.                                                        *)
(***************************************************************************)
C1_FirstMatchDecides ==
    Routed =>
      /\ checks = (IF resource \in INTERNAL_ERROR_TRIGGER THEN <<"error">>
                   ELSE IF resource \in DOMAIN REDIRECTION_DICTIONARY
                        THEN <<"error", "redirect">>
                   ELSE IF resource \in FORBIDDEN_FILES
                        THEN <<"error", "redirect", "forbidden">>
                   ELSE <<"error", "redirect", "forbidden", "isfile">>)
      /\ resource \in INTERNAL_ERROR_TRIGGER =>
            /\ FirstSite = 76
            /\ FirstResponse = Wire500
            /\ (sends # <<>> /\ sends[1].ok => Wire = Wire500)
      /\ (resource \notin INTERNAL_ERROR_TRIGGER
          /\ resource \in DOMAIN REDIRECTION_DICTIONARY) => FirstSite = 82
      /\ (resource \notin INTERNAL_ERROR_TRIGGER
          /\ resource \notin DOMAIN REDIRECTION_DICTIONARY
          /\ resource \in FORBIDDEN_FILES) => FirstSite = 87
      /\ InNoTable(resource) =>
            \/ pc = "read" /\ sends = <<>>
            \/ FirstSite \in {92, 104, 107}
      /\ ~InNoTable(resource) => reads = <<>>

\* A resource of all three tables whose file exists has been answered 500.
C1_Witness ==
    /\ Finished
    /\ resource \in INTERNAL_ERROR_TRIGGER
    /\ resource \in DOMAIN REDIRECTION_DICTIONARY
    /\ resource \in FORBIDDEN_FILES
    /\ filepath \in DOMAIN fs
    /\ fs[filepath].kind = "file"
    /\ Len(sends) = 1
    /\ Wire = Wire500

(***************************************************************************)
(* Reading a response back from its bytes.                                 *)
(***************************************************************************)
\* Where the blank line that ends the head of a response starts (the index of
\* its first CR), 0 when there is none
HeadEnd(r) ==
    LET hits == {i \in 1..(Len(r) - 3) : SubSeq(r, i, i + 3) = <<"\r", "\n", "\r", "\n">>}
    IN  IF hits = {} THEN 0 ELSE SetMin(hits)

\* The status line, the header lines and the body of a response with a head
HeadLines(r) == split_crlf(SubSeq(r, 1, HeadEnd(r) - 1))
StatusLineOf(r) == Head(HeadLines(r))
HeaderLinesOf(r) == Tail(HeadLines(r))
BodyOf(r) == SubSeq(r, HeadEnd(r) + 4, Len(r))

\* Where ": " first occurs in a header line, 0 when the line has none
ColonAt(line) ==
    LET hits == {i \in 1..(Len(line) - 1) : line[i] = ":" /\ line[i + 1] = " "}
    IN  IF hits = {} THEN 0 ELSE SetMin(hits)

\* The values a response gives for a header name, in order
HeaderValuesOf(r, hname) ==
    LET named == SelectSeq(HeaderLinesOf(r),
                   LAMBDA line : /\ ColonAt(line) > 1
                                 /\ SubSeq(line, 1, ColonAt(line) - 1) = hname)
    IN  [i \in DOMAIN named |-> SubSeq(named[i], ColonAt(named[i]) + 2, Len(named[i]))]

IsDecimal(ds) ==
    /\ ds # <<>>
    /\ \A i \in DOMAIN ds : ds[i] \in {"0", "1", "2", "3", "4", "5", "6", "7", "8", "9"}
    /\ (Len(ds) > 1 => ds[1] # "0")

RECURSIVE DecimalValue(_)
\* The number a string of decimal digits writes
DecimalValue(ds) ==
    IF ds = <<>> THEN 0
    ELSE 10 * DecimalValue(SubSeq(ds, 1, Len(ds) - 1))
         + (CHOOSE d \in 0..9 : Digits[d + 1] = ds[Len(ds)])

\* 'Content-Length', 'Content-Type', 'Location', 'Connection' as header names
NameContentLength ==
    <<"C", "o", "n", "t", "e", "n", "t", "-", "L", "e", "n", "g", "t", "h">>
NameContentType ==
    <<"C", "o", "n", "t", "e", "n", "t", "-", "T", "y", "p", "e">>

\* The content type the extension of each served path stands for
ExpectedContentType(path) ==
    IF path = path_join(WEBROOT, DEFAULT_URL)
    THEN <<"t", "e", "x", "t", "/", "h", "t", "m", "l">>
    ELSE IF path \in {path_join(WEBROOT, s_secret_txt),
                       <<"w", "e", "b", "r", "o", "o", "t", "/", ".", "/", "s", "u", "b", "/", ".", ".", "/", "s", "e", "c", "r", "e", "t", ".", "t", "x", "t">>}
    THEN <<"t", "e", "x", "t", "/", "p", "l", "a", "i", "n">>
    ELSE <<"a", "p", "p", "l", "i", "c", "a", "t", "i", "o", "n", "/",
           "o", "c", "t", "e", "t", "-", "s", "t", "r", "e", "a", "m">>

\* A response is 200 OK for the given path and bytes: the status line, a
\* Content-Length that is the decimal byte count, the Content-Type of the
\* extension, and the bytes as body.
Is200For(r, path, bytes) ==
    /\ HeadEnd(r) # 0
    /\ StatusLineOf(r) = StatusLine200
    /\ BodyOf(r) = bytes
    /\ Len(HeaderValuesOf(r, NameContentLength)) = 1
    /\ IsDecimal(HeaderValuesOf(r, NameContentLength)[1])
    /\ DecimalValue(HeaderValuesOf(r, NameContentLength)[1]) = Len(BodyOf(r))
    /\ HeaderValuesOf(r, NameContentType) = <<ExpectedContentType(path)>>

\* The router found a regular file at the resolved path (its fourth check did
\* not match) and has gone through its try block
ServedAsFile ==
    /\ Routed
    /\ InNoTable(resource)
    /\ FirstSite \in {104, 107}

(***************************************************************************)
(* C2, as stated: a valid GET whose resource is in no table and whose      *)
(* resolved path is a regular file is answered 200 OK.                     *)
(***************************************************************************)
C2_AsStated ==
    ServedAsFile =>
      /\ FirstSite = 104
      /\ HeadEnd(FirstResponse) # 0
      /\ StatusLineOf(FirstResponse) = StatusLine200

(***************************************************************************)
(* C2, amended: a valid GET whose resource is in no table, whose resolved  *)
(* path is a regular file and whose file is then read without error is     *)
(* answered 'HTTP/1.0 200 OK' with Content-Length the decimal count of the *)
(* bytes read, Content-Type by the extension of the file and the bytes     *)
(* read as body; a send that succeeds delivers exactly that.  When the     *)
(* read fails the answer is the 500 response with an empty body.           *)
(***************************************************************************)
C2_ReadFileIsServed ==
    /\ Len(reads) <= 1
    /\ (reads # <<>> /\ reads[1].ok) =>
          /\ ServedAsFile
          /\ FirstSite = 104
          /\ Is200For(FirstResponse, filepath, reads[1].data)
          /\ (sends # <<>> /\ sends[1].ok => Wire = FirstResponse)
    /\ (ServedAsFile /\ FirstSite = 104) => (reads # <<>> /\ reads[1].ok)
    /\ (reads # <<>> /\ ~reads[1].ok) =>
          /\ ServedAsFile
          /\ FirstSite = 107
          /\ FirstResponse = Wire500

\* A file of MaxFileLen bytes with a known extension has been served whole.
C2_Witness ==
    /\ Finished
    /\ reads # <<>> /\ reads[1].ok
    /\ Len(reads[1].data) = MaxFileLen
    /\ filepath = path_join(WEBROOT, s_secret_txt)
    /\ Len(sends) = 1 /\ sends[1].ok
    /\ DecimalValue(HeaderValuesOf(Wire, NameContentLength)[1]) = MaxFileLen

(***************************************************************************)
(* C3, as stated: every resource of the redirect map is answered 302       *)
(* Found, whatever the tables hold.                                        *)
(***************************************************************************)
C3_AsStated ==
    (Routed /\ resource \in DOMAIN REDIRECTION_DICTIONARY) =>
       /\ FirstSite = 82
       /\ FirstResponse = Wire302Head \o REDIRECTION_DICTIONARY[resource] \o Wire302Tail

(***************************************************************************)
(* C3, amended: every resource of the redirect map that is not in the      *)
(* error-trigger set is answered '302 Found' with Location '/' followed by *)
(* the mapped target, and an empty body.                                   *)
(***************************************************************************)
C3_RedirectAnswered ==
    (/\ Routed
     /\ resource \in DOMAIN REDIRECTION_DICTIONARY
     /\ resource \notin INTERNAL_ERROR_TRIGGER) =>
       /\ FirstSite = 82
       /\ FirstResponse = Wire302Head \o REDIRECTION_DICTIONARY[resource] \o Wire302Tail
       /\ BodyOf(FirstResponse) = <<>>
       /\ reads = <<>>
       /\ (sends # <<>> /\ sends[1].ok => Wire = FirstResponse)

\* A resource of the redirect map and of the forbidden set has been redirected.
C3_Witness ==
    /\ Finished
    /\ resource \in DOMAIN REDIRECTION_DICTIONARY
    /\ resource \in FORBIDDEN_FILES
    /\ Len(sends) = 1 /\ sends[1].ok
    /\ Wire = Wire302Head \o s_secret_txt \o Wire302Tail

(***************************************************************************)
(* C4: a resource of the forbidden set that is in neither the              *)
(* error-trigger set nor the redirect map is answered '403 Forbidden' with *)
(* an empty body whether or not its file exists, and no file is read nor   *)
(* are a file's bytes sent.                                                *)
(***************************************************************************)
C4_ForbiddenAnswered ==
    (/\ Routed
     /\ resource \in FORBIDDEN_FILES
     /\ resource \notin INTERNAL_ERROR_TRIGGER
     /\ resource \notin DOMAIN REDIRECTION_DICTIONARY) =>
       /\ FirstSite = 87
       /\ FirstResponse = Wire403
       /\ reads = <<>>
       /\ \A i \in DOMAIN sends : sends[i].response \in {Wire403, Wire500}
       /\ (sends # <<>> /\ sends[1].ok => Wire = Wire403)

\* A forbidden resource whose file exists and is readable has been answered 403.
C4_Witness ==
    /\ Finished
    /\ resource = s_secret_txt
    /\ resource \notin INTERNAL_ERROR_TRIGGER
    /\ resource \notin DOMAIN REDIRECTION_DICTIONARY
    /\ fs[filepath].kind = "file" /\ fs[filepath].readable
    /\ Len(sends) = 1
    /\ Wire = Wire403

(***************************************************************************)
(* The validity of a request line, told from its characters: exactly two   *)
(* spaces (three tokens when split on single spaces), 'GET' before the     *)
(* first and 'HTTP/' right after the second.                               *)
(***************************************************************************)
LineIsValid(line) ==
    LET spaces == {i \in DOMAIN line : line[i] = " "}
    IN  /\ Cardinality(spaces) = 2
        /\ SubSeq(line, 1, SetMin(spaces) - 1) = <<"G", "E", "T">>
        /\ SubSeq(line, SetMax(spaces) + 1, SetMax(spaces) + 5)
             = <<"H", "T", "T", "P", "/">>

\* The token between the two spaces of a valid request line
PathOfLine(line) ==
    LET spaces == {i \in DOMAIN line : line[i] = " "}
    IN  SubSeq(line, SetMin(spaces) + 1, SetMax(spaces) - 1)

\* The first CRLF-delimited line of the request as received
FirstLineReceived == Head(split_crlf(decode(data)))

\* The request was answered as an invalid one: the 500 response of line 155,
\* the router never called, no file read
AnsweredInvalid ==
    /\ ~Routed
    /\ pc # "router"
    /\ reads = <<>>
    /\ FirstSite = 155
    /\ FirstResponse = Wire500

(***************************************************************************)
(* C5, as stated: a request is valid exactly when its first line as        *)
(* received, leading and trailing whitespace included, has three tokens,   *)
(* the first 'GET' and the third beginning with 'HTTP/'; any other request *)
(* is answered 500 and never routed.                                       *)
(***************************************************************************)
C5_AsStated ==
    valid_http # "none" =>
      /\ valid_http = "valid" <=> LineIsValid(FirstLineReceived)
      /\ ~LineIsValid(FirstLineReceived) => AnsweredInvalid

(***************************************************************************)
(* C5, amended: a request is valid exactly when its first line, with its   *)
(* leading and trailing whitespace stripped, has three tokens, the first   *)
(* 'GET' and the third beginning with 'HTTP/'; any other request is        *)
(* answered '500 Internal Server Error' and never passed to the router,    *)
(* and a valid one is passed to the router with its second token.          *)
(***************************************************************************)
C5_ValidAfterStrip ==
    valid_http # "none" =>
      /\ valid_http = "valid" <=> LineIsValid(strip(FirstLineReceived))
      /\ valid_http = "invalid" => AnsweredInvalid
      /\ valid_http = "valid" => (pc = "router" \/ Routed)
      /\ (valid_http = "valid" /\ pc = "router") =>
            resource = PathOfLine(strip(FirstLineReceived))

\* A request line of four tokens has been answered 500 without being routed.
C5_Witness ==
    /\ Finished
    /\ data = Req14
    /\ valid_http = "invalid"
    /\ ~Routed
    /\ Len(sends) = 1
    /\ Wire = Wire500

(***************************************************************************)
(* C6: no error escapes the connection handler: whatever fault occurs      *)
(* while a connection is handled, handle_client returns normally to the    *)
(* server loop and the process goes on to accept the next connection.      *)
(***************************************************************************)
C6_NoErrorEscapes ==
    /\ ~escaping
    /\ pc # "crashed"

(***************************************************************************)
(* A complete well-formed response and nothing else: a status line of      *)
(* version 1.0, header lines 'name: value', a blank line, and a body of    *)
(* the length Content-Length states, or no body when there is none.        *)
(***************************************************************************)
OneCompleteResponse(w) ==
    /\ HeadEnd(w) # 0
    /\ Len(StatusLineOf(w)) > 9
    /\ SubSeq(StatusLineOf(w), 1, 9) = <<"H", "T", "T", "P", "/", "1", ".", "0", " ">>
    /\ \A i \in DOMAIN HeaderLinesOf(w) : ColonAt(HeaderLinesOf(w)[i]) > 1
    /\ Len(HeaderValuesOf(w, NameContentLength)) <= 1
    /\ IF HeaderValuesOf(w, NameContentLength) = <<>>
       THEN BodyOf(w) = <<>>
       ELSE /\ IsDecimal(HeaderValuesOf(w, NameContentLength)[1])
            /\ DecimalValue(HeaderValuesOf(w, NameContentLength)[1]) = Len(BodyOf(w))

C8_ClosedOnEveryExit ==
    (pc \in {"accept", "crashed"} /\ sock # "none") =>
      /\ sock = "closed"
      /\ ops # <<>>
      /\ ops[Len(ops)] = "close"

\* The handler has been left by an exception raised inside its except clause.
C8_Witness ==
    /\ pc = "crashed"
    /\ escaping
    /\ sock = "closed"
    /\ sends # <<>>
    /\ sends[Len(sends)].site = 159
    /\ ~sends[Len(sends)].ok

(***************************************************************************)
(* C9: after a receive of zero bytes no send is attempted, the request is  *)
(* neither validated nor routed, no file is read, and the socket is closed *)
(* with zero bytes sent.                                                   *)
(***************************************************************************)
C9_EmptyReadSilentClose ==
    recvd = "empty" =>
      /\ sends = <<>>
      /\ \A i \in DOMAIN ops : ops[i] # "send"
      /\ valid_http = "none"
      /\ ~Routed
      /\ reads = <<>>
      /\ pc \in {"close_empty", "finally", "accept"}
      /\ ~escaping
      /\ pc # "close_empty" => sock = "closed"
      /\ Wire = <<>>

\* A connection whose receive returned nothing has been handled.
C9_Witness ==
    /\ recvd = "empty"
    /\ pc = "accept"
    /\ sock = "closed"
    /\ ops = <<"settimeout", "recv", "close", "close">>

(***************************************************************************)
(* C10: the timeout is set before the receive is issued, and when the      *)
(* receive times out the except clause of handle_client sends the '500     *)
(* Internal Server Error' response and the socket is then closed.          *)
(***************************************************************************)
C10_TimeoutAnswered500 ==
    /\ Len(ops) >= 2 =>
          /\ ops[1] = "settimeout"
          /\ ops[2] = "recv"
          /\ timeout = SOCKET_TIMEOUT
    /\ \A i \in DOMAIN ops : ops[i] = "recv" => i = 2
    /\ recvd = "timeout" =>
          /\ valid_http = "none"
          /\ ~Routed
          /\ \/ pc = "except" /\ sends = <<>>
             \/ FirstSite = 159 /\ FirstResponse = Wire500
          /\ pc \in {"except", "send", "finally", "accept", "crashed"}
    /\ (recvd = "timeout" /\ Finished) =>
          /\ sock = "closed"
          /\ ops = <<"settimeout", "recv", "send", "close">>
          /\ Len(sends) = 1
          /\ sends[1].ok => Wire = Wire500

\* A receive that timed out has been answered 500 and the socket closed.
C10_Witness ==
    /\ recvd = "timeout"
    /\ Finished
    /\ sock = "closed"
    /\ Len(sends) = 1 /\ sends[1].ok
    /\ Wire = Wire500

(***************************************************************************)
(* C11: the server handles connections strictly one at a time: when main   *)
(* accepts a connection the one before it has been handled to its close,   *)
(* so at most one client socket is open at any moment, and every send goes *)
(* to the connection accepted last while every earlier one is closed, so   *)
(* that responses are sent in the order of the accepts.                    *)
(***************************************************************************)
C11_OneAtATime ==
    /\ unclosed = 0
    /\ unclosed + (IF sock = "open" THEN 1 ELSE 0) <= 1
    /\ (sock = "none") <=> (accepted = 0)
    /\ (pc = "accept" /\ accepted > 0) =>
          /\ sock = "closed"
          /\ ops[Len(ops)] = "close"
          /\ Len(ops) >= 3
    /\ pc = "send" => (sock = "open" /\ accepted > 0)
    /\ sends # <<>> => accepted > 0

\* The second connection is being answered, the first closed before it.
C11_Witness ==
    /\ accepted = MaxConns
    /\ unclosed = 0
    /\ pc = "finally"
    /\ sock = "open"
    /\ Len(sends) = 1 /\ sends[1].ok

(***************************************************************************)
(* C12: a GET for '/' is equivalent to a GET for '/index.html': whatever   *)
(* the filesystem and the tables hold, the router's step takes both        *)
(* request paths to the same resource, the same filepath, the same checks  *)
(* and the same response at the same send (or to the same read of the same *)
(* file), so that the bytes answered are identical.                        *)
(***************************************************************************)
PathRoot == <<"/">>
PathDefault == <<"/">> \o DEFAULT_URL

C12_RootIsDefault ==
    [][(pc = "router" /\ pc' # "router" /\ resource \in {PathRoot, PathDefault}) =>
          LET other == IF resource = PathRoot THEN PathDefault ELSE PathRoot
              res == resolve_resource(other)
              path == path_join(WEBROOT, res)
              r == Route(res, path)
          IN  /\ resource' = res
              /\ filepath' = path
              /\ checks' = r.checks
              /\ IF r.site = 0
                 THEN pc' = "read" /\ response' = response /\ site' = site
                 ELSE pc' = "send" /\ response' = r.response /\ site' = r.site]_vars

\* The request 'GET / HTTP/1.0' has been answered with the default document.
C12_Witness ==
    /\ Finished
    /\ data = Req01
    /\ resource = DEFAULT_URL
    /\ Len(sends) = 1 /\ sends[1].ok /\ sends[1].site = 104
    /\ Len(BodyOf(Wire)) = MaxFileLen

(***************************************************************************)
(* C13: build_response returns the status line                             *)
(* 'HTTP/<version> <code> <reason>' and CRLF, then every supplied header   *)
(* as '<name>: <value>' and CRLF in insertion order, then a blank CRLF,    *)
(* then the body as given.  When the caller supplied no 'Connection'       *)
(* header, 'Connection: close' comes after all the caller's headers; when  *)
(* the caller supplied one it is kept as it is and no second one is added; *)
(* the result has a Content-Length header only when the caller supplied    *)
(* one.                                                                    *)
(***************************************************************************)
\* The decimal text of the status codes of BuildResponseArgs
CodeText(n) ==
    IF n = 200 THEN <<"2", "0", "0">>
    ELSE IF n = 404 THEN <<"4", "0", "4">>
    ELSE <<"7">>

NameConnection == <<"C", "o", "n", "n", "e", "c", "t", "i", "o", "n">>
LineConnectionClose == <<"C", "o", "n", "n", "e", "c", "t", "i", "o", "n", ":", " ", "c", "l", "o", "s", "e">>

\* How many entries of a header mapping have the name
CountHeader(headers, hname) ==
    Cardinality({i \in DOMAIN headers : headers[i][1] = hname})

C13_Serialization ==
    (args # NoArgs /\ calls # <<>>) =>
        LET supplied == args.headers.items
            w == calls[1].returned
            lines == HeaderLinesOf(w)
        IN  /\ HeadEnd(w) # 0
            /\ StatusLineOf(w) =
                 <<"H", "T", "T", "P", "/">> \o args.http_version \o <<" ">>
                 \o CodeText(args.status[1]) \o <<" ">> \o args.status[2]
            /\ Len(lines) >= Len(supplied)
            /\ \A k \in DOMAIN supplied :
                  lines[k] = supplied[k][1] \o <<":", " ">> \o supplied[k][2]
            /\ IF CountHeader(supplied, NameConnection) = 0
               THEN /\ Len(lines) = Len(supplied) + 1
                    /\ lines[Len(lines)] = LineConnectionClose
               ELSE /\ Len(lines) = Len(supplied)
                    /\ Len(HeaderValuesOf(w, NameConnection)) = 1
            /\ Len(HeaderValuesOf(w, NameContentLength))
                 = CountHeader(supplied, NameContentLength)
            /\ BodyOf(w) = args.body
            /\ Len(w) = HeadEnd(w) + 3 + Len(args.body)

\* A call with two headers, none of them Connection, and a body that holds
\* a blank line has returned.
C13_Witness ==
    /\ args # NoArgs
    /\ calls # <<>>
    /\ args.headers.given
    /\ Len(args.headers.items) = 2
    /\ CountHeader(args.headers.items, NameConnection) = 0
    /\ Len(args.body) > 4
    /\ Len(HeaderLinesOf(calls[1].returned)) = 3

(***************************************************************************)
(* C14: a valid GET whose normalised resource is in none of the route      *)
(* tables and whose resolved path is no existing regular file when the     *)
(* router asks (absent, or a directory, the document root of the empty     *)
(* resource among them) is answered '404 Not Found' with an empty body,    *)
(* and no file read is attempted.                                          *)
(***************************************************************************)
\* 'HTTP/1.0 404 Not Found\r\nConnection: close\r\n\r\n'
Wire404 ==
    <<"H", "T", "T", "P", "/", "1", ".", "0", " ", "4", "0", "4", " ", "N", "o", "t", " ", "F", "o", "u", "n", "d", "\r", "\n", "C", "o", "n", "n", "e", "c", "t", "i", "o", "n", ":", " ", "c", "l", "o", "s", "e", "\r", "\n", "\r", "\n">>

\* What the filesystem holds at the path the router resolved
FoundAtFilepath(path) == lookup(path).kind

C14_MissingFileAnswered404 ==
    [][/\ (pc = "router" /\ pc' # "router" /\ InNoTable(resource')
           /\ FoundAtFilepath(filepath') # "file") =>
              /\ pc' = "send"
              /\ site' = 92
              /\ response' = Wire404
              /\ BodyOf(response') = <<>>
              /\ reads' = <<>>
       /\ (pc = "send" /\ pc' # "send" /\ site = 92) =>
              /\ reads' = <<>>
              /\ Len(sends') = 1
              /\ sends'[1].response = Wire404
              /\ (sends'[1].ok => (Delivered(sends') = Wire404 /\ pc' = "finally"))
       /\ (Routed /\ FirstSite = 92 /\ pc' # "settimeout") =>
              (reads' = <<>> /\ FirstSite' = 92)]_vars

\* The empty resource, which resolves to the document root itself, has been
\* answered 404 without a read.
C14_Witness ==
    /\ Finished
    /\ data = Req07
    /\ resource = <<>>
    /\ InNoTable(resource)
    /\ FoundAtFilepath(filepath) = "dir"
    /\ reads = <<>>
    /\ Len(sends) = 1 /\ sends[1].ok
    /\ Wire = Wire404

(***************************************************************************)
(* C15: on one connection there is at most one receive and at most one     *)
(* file read, and the router makes at most one send attempt: when that     *)
(* send fails, the failure goes to the connection handler's failure path   *)
(* (whose 500 is the send of line 159) and the router sends nothing more.  *)
(***************************************************************************)
RouterSites == {76, 82, 87, 92, 104, 107}

\* How often an operation occurs among the socket operations
CountOps(op) == Cardinality({i \in DOMAIN ops : ops[i] = op})

RouterSends == {i \in DOMAIN sends : sends[i].site \in RouterSites}

C15_NoRetry ==
    /\ CountOps("recv") <= 1
    /\ Len(reads) <= 1
    /\ Cardinality(RouterSends) <= 1
    /\ \A i \in DOMAIN sends :
          (sends[i].site \in RouterSites /\ ~sends[i].ok) =>
             \A j \in DOMAIN sends : j > i => sends[j].site = 159

(***************************************************************************)
(* C16: when the file the router found to be a regular file is gone, is a  *)
(* directory or cannot be read by the time it is opened, the request is    *)
(* answered '500 Internal Server Error' with an empty body by the router   *)
(* itself (line 107), not with a 200 or a 404, and the failure of the read *)
(* does not leave handle_client_request as an exception.                   *)
(***************************************************************************)
C16_RaceAnswered500 ==
    [][/\ (pc = "read" /\ pc' # "read"
           /\ ~(lookup(filepath).kind = "file" /\ lookup(filepath).readable)) =>
              /\ pc' = "send"
              /\ site' = 107
              /\ response' = Wire500
              /\ BodyOf(response') = <<>>
              /\ escaping' = FALSE
              /\ reads' = <<[ok |-> FALSE, data |-> <<>>,
                             found |-> lookup(filepath).kind]>>
       /\ (reads # <<>> /\ ~reads[1].ok /\ pc' # "settimeout") =>
              /\ FirstSite' = 107
              /\ FirstResponse' = Wire500
              /\ (sends' # <<>> /\ sends'[1].ok) =>
                    /\ Delivered(sends') = Wire500
                    /\ escaping' = FALSE
                    /\ pc' \in {"finally", "accept"}]_vars

\* The file was a regular file when the router asked and was gone when it was
\* opened; the 500 response was sent and handle_client returned.
C16_Witness ==
    /\ Finished
    /\ pc = "accept"
    /\ checks = <<"error", "redirect", "forbidden", "isfile">>
    /\ reads # <<>>
    /\ ~reads[1].ok
    /\ reads[1].found = "absent"
    /\ Len(sends) = 1 /\ sends[1].ok /\ sends[1].site = 107
    /\ Wire = Wire500

(***************************************************************************)
(* C17, as stated: the resource is the default document for the request    *)
(* path '/', and for every other path that path with its single leading    *)
(* '/' removed (unchanged without one, '//secret.txt' keeping its second   *)
(* slash); the filepath is the document root joined with the resource as   *)
(* it is.                                                                  *)
(***************************************************************************)
WithoutOneSlash(path) ==
    IF path # <<>> /\ Head(path) = "/" THEN Tail(path) ELSE path

C17_AsStated ==
    [][(pc = "router" /\ pc' # "router") =>
          /\ resource' = (IF resource = <<"/">> THEN DEFAULT_URL
                          ELSE WithoutOneSlash(resource))
          /\ filepath' = WEBROOT \o <<"/">> \o resource']_vars

(***************************************************************************)
(* C17, amended: the resource is the default document for the request path *)
(* '/', and for every other path that path with all its leading '/'        *)
(* removed (unchanged without one, '//secret.txt' giving 'secret.txt');    *)
(* the filepath is the document root, a '/', and the resource as it is,    *)
(* '.' and '..' segments included.                                         *)
(***************************************************************************)
RECURSIVE WithoutLeadingSlashes(_)
WithoutLeadingSlashes(path) ==
    IF path # <<>> /\ Head(path) = "/" THEN WithoutLeadingSlashes(Tail(path))
    ELSE path

C17_AllLeadingSlashesRemoved ==
    [][(pc = "router" /\ pc' # "router") =>
          /\ resource' = (IF resource = <<"/">> THEN DEFAULT_URL
                          ELSE WithoutLeadingSlashes(resource))
          /\ filepath' = WEBROOT \o <<"/">> \o resource'
          /\ (data = Req20 => filepath' = <<"w", "e", "b", "r", "o", "o", "t", "/", ".", "/", "s", "u", "b", "/", ".", ".", "/", "s", "e", "c", "r", "e", "t", ".", "t", "x", "t">>)
          /\ (data = Req06 => filepath' = <<"w", "e", "b", "r", "o", "o", "t", "/", "s", "e", "c", "r", "e", "t", ".", "t", "x", "t">>)]_vars

\* '//secret.txt' has been routed as 'secret.txt'.
C17_Witness ==
    /\ Routed
    /\ data = Req06
    /\ resource = s_secret_txt
    /\ filepath = path_join(WEBROOT, s_secret_txt)

(***************************************************************************)
(* C18: the route tables are matched by exact string equality on the       *)
(* normalised resource: the 403 is sent if and only if the resource string *)
(* is in the forbidden set and in neither earlier table, likewise the 302  *)
(* and the table's 500; a resource equal to no key is decided by the       *)
(* regular-file check alone, also when it names the same file as a key.    *)
(***************************************************************************)
\* Whether a string is one of the given strings, character by character
IsOneOf(str1, strs) ==
    \E k \in strs :
       /\ Len(k) = Len(str1)
       /\ \A i \in 1..Len(k) : k[i] = str1[i]

C18_ExactStringMatch ==
    Routed =>
      LET e == IsOneOf(resource, INTERNAL_ERROR_TRIGGER)
          r == IsOneOf(resource, DOMAIN REDIRECTION_DICTIONARY)
          f == IsOneOf(resource, FORBIDDEN_FILES)
      IN  /\ (FirstSite = 76) <=> e
          /\ (FirstSite = 82) <=> (~e /\ r)
          /\ (FirstSite = 87) <=> (~e /\ ~r /\ f)
          /\ (~e /\ ~r /\ ~f) =>
                /\ checks = <<"error", "redirect", "forbidden", "isfile">>
                /\ \/ pc = "read" /\ sends = <<>>
                   \/ FirstSite \in {92, 104, 107}
                /\ (FirstSite = 92 => reads = <<>>)
                /\ (FirstSite \in {104, 107} => Len(reads) = 1)

\* The file of a forbidden key has been served under another name for it.
C18_Witness ==
    /\ Finished
    /\ data = Req20
    /\ s_secret_txt \in FORBIDDEN_FILES
    /\ resource \notin FORBIDDEN_FILES
    /\ lookup(filepath) = fs[path_join(WEBROOT, s_secret_txt)]
    /\ Len(sends) = 1 /\ sends[1].ok /\ sends[1].site = 104
    /\ StatusLineOf(Wire) = StatusLine200
    /\ Len(BodyOf(Wire)) = MaxFileLen

(***************************************************************************)
(* C19: build_response leaves its arguments as they were: the header       *)
(* mapping the caller passed has the same entries after the call as before *)
(* it, and a second call with the same arguments returns the same bytes.   *)
(***************************************************************************)
C19_ArgumentsUnchanged ==
    \A i \in DOMAIN calls :
       /\ calls[i].headers_after = calls[i].headers
       /\ calls[i].returned = calls[1].returned

(***************************************************************************)
(* C20: the operations on the client socket of one connection are, in this *)
(* order, one settimeout, one recv, any number of sends, and close, which  *)
(* is called once, or twice when nothing was received; nothing is received *)
(* or sent on the socket once it is closed.                                *)
(***************************************************************************)
OpRank(op) ==
    IF op = "settimeout" THEN 1
    ELSE IF op = "recv" THEN 2
    ELSE IF op = "send" THEN 3
    ELSE 4

C20_SocketOpsInOrder ==
    /\ \A i, j \in DOMAIN ops : i < j => OpRank(ops[i]) <= OpRank(ops[j])
    /\ \A i \in DOMAIN ops : ops[i] \in {"settimeout", "recv", "send", "close"}
    /\ CountOps("settimeout") <= 1
    /\ CountOps("recv") <= 1
    /\ CountOps("close") <= 2
    /\ (CountOps("close") = 2 => (recvd = "empty" /\ CountOps("send") = 0))
    /\ (Len(ops) >= 1 => ops[1] = "settimeout")
    /\ (Len(ops) >= 2 => ops[2] = "recv")
    /\ (sock = "closed") <=> (CountOps("close") >= 1)
    /\ CountOps("send") = Len(sends)
    /\ (pc \in {"recv", "send"} => sock = "open")

\* Three sends (lines 104, 107 and 159) and then the close.
C20_Witness ==
    /\ Finished
    /\ ops = <<"settimeout", "recv", "send", "send", "send", "close">>
    /\ sock = "closed"

====
